---- MODULE Spec2Model ----
(***************************************************************************)
(* Context Kernel MCP server (src/src/mcp/context-kernel/server.py).       *)
(*                                                                         *)
(* The state is the four module-level dictionaries REGISTRY, NAMESPACE,    *)
(* SEQUENCE and EXEC_ENVS, plus the wall clock.  One action per tool of    *)
(* call_tool; every action is the whole handler: prune_stale(),            *)
(* ensure_namespace(session) and then the tool's branch.                   *)
(*                                                                         *)
(* Python strings are sequences of one-character strings, so that          *)
(* split, join, startswith, repr and the handle format are computed as     *)
(* the code computes them.  Dictionaries are functions; a missing key is   *)
(* a key outside DOMAIN.  A call that raises out of call_tool leaves       *)
(* result.kind = "raised".                                                 *)
(*                                                                         *)
(* Scaling.  Time is counted in ticks and the sizes in characters; the     *)
(* program constants IDLE_TIMEOUT, MAX_REGISTRY_SIZE, CHUNK_DEFAULT and    *)
(* CHUNK_MAX keep their role and their order relations, with values small  *)
(* enough for the inputs below to cross them.                              *)
(*                                                                         *)
(* Not modelled: the ISO "created"/"accessed" strings of a Variable Record *)
(* (written by load/peek/scan, echoed by var_info and list_vars, counted   *)
(* by str() as 26 characters each), the metadata argument (always its      *)
(* default {}), and execution_time.                                        *)
(***************************************************************************)
EXTENDS Integers, Sequences, FiniteSets, TLC

\* ------------------------------------------------------------------------
\* Program constants (server.py:48-55)
\* ------------------------------------------------------------------------
IDLE_TIMEOUT == 1
MAX_REGISTRY_SIZE == 200
CHUNK_DEFAULT == 1
CHUNK_MAX == 2
MAX_OUTPUT_SIZE == 1048576

\* ------------------------------------------------------------------------
\* Bounds of the model
\* ------------------------------------------------------------------------
MaxTime == 2
MaxSeq == 2
MaxPending == 2

\* ------------------------------------------------------------------------
\* Dictionaries and strings
\* ------------------------------------------------------------------------
Get(f, k, d) == IF k \in DOMAIN f THEN f[k] ELSE d

Put(f, k, v) == [j \in DOMAIN f \cup {k} |-> IF j = k THEN v ELSE f[j]]

Del(f, ks) == [j \in DOMAIN f \ ks |-> f[j]]

Max(a, b) == IF a > b THEN a ELSE b

Min(a, b) == IF a < b THEN a ELSE b

startswith(s, p) == Len(s) >= Len(p) /\ SubSeq(s, 1, Len(p)) = p

\* seq[start:stop] with Python's treatment of negative and out-of-range indices
PySlice(s, start, stop) ==
    LET n == Len(s)
        norm(i) == IF i < 0 THEN Max(i + n, 0) ELSE Min(i, n)
    IN SubSeq(s, norm(start) + 1, norm(stop))

RECURSIVE SumSeq(_)
SumSeq(s) == IF s = <<>> THEN 0 ELSE Head(s) + SumSeq(Tail(s))

RECURSIVE SumOver(_, _)
SumOver(f, S) ==
    IF S = {} THEN 0
    ELSE LET k == CHOOSE j \in S : TRUE IN f[k] + SumOver(f, S \ {k})

NL == "\n"

\* mutant of split: content.splitlines(), which drops the empty piece after
\* a final newline
split_splitlines(s) ==
    LET nl == {i \in 1..Len(s) : s[i] = NL}
        n == Cardinality(nl)
        pos(k) == IF k = 0 THEN 0
                  ELSE IF k = n + 1 THEN Len(s) + 1
                  ELSE CHOOSE i \in nl : Cardinality({j \in nl : j < i}) = k - 1
        full == [k \in 1..(n + 1) |-> SubSeq(s, pos(k - 1) + 1, pos(k) - 1)]
    IN IF n > 0 /\ s[Len(s)] = NL THEN SubSeq(full, 1, n) ELSE full

\* content.split("\n"): the pieces between consecutive newlines, the empty
\* pieces included
split(s) ==
    LET nl == {i \in 1..Len(s) : s[i] = NL}
        n == Cardinality(nl)
        pos(k) == IF k = 0 THEN 0
                  ELSE IF k = n + 1 THEN Len(s) + 1
                  ELSE CHOOSE i \in nl : Cardinality({j \in nl : j < i}) = k - 1
    IN [k \in 1..(n + 1) |-> SubSeq(s, pos(k - 1) + 1, pos(k) - 1)]

\* "\n".join(lines)
RECURSIVE join(_)
join(lines) ==
    IF lines = <<>> THEN <<>>
    ELSE IF Len(lines) = 1 THEN Head(lines)
    ELSE Head(lines) \o <<NL>> \o join(Tail(lines))

Digits == <<"0", "1", "2", "3", "4", "5", "6", "7", "8", "9">>

\* str(n) for n >= 0
RECURSIVE Dec(_)
Dec(n) == IF n < 10 THEN <<Digits[n + 1]>> ELSE Dec(n \div 10) \o <<Digits[(n % 10) + 1]>>

\* f"{seq:03d}"
RECURSIVE ZeroPad(_, _)
ZeroPad(s, w) == IF Len(s) >= w THEN s ELSE ZeroPad(<<"0">> \o s, w)

Fmt03(n) == ZeroPad(Dec(n), 3)

DigitValue(c) == CHOOSE d \in 0..9 : Digits[d + 1] = c

\* int(s) for a string of digits
RECURSIVE ParseInt(_)
ParseInt(s) ==
    IF s = <<>> THEN 0 ELSE 10 * ParseInt(SubSeq(s, 1, Len(s) - 1)) + DigitValue(s[Len(s)])

\* the sequence number a handle string embeds: the digits after its last "_"
SeqOfHandle(h) ==
    LET us == {i \in 1..Len(h) : h[i] = "_"}
        last == CHOOSE i \in us : \A j \in us : j <= i
    IN ParseInt(SubSeq(h, last + 1, Len(h)))

\* len(repr(s)) for a string of letters, digits, "_" and newlines:
\* two quotes, and a newline is written as the two characters \n
ReprLen(s) == Len(s) + 2 + Cardinality({i \in 1..Len(s) : s[i] = NL})

\* len(repr(lines)) for a list of strings: brackets and ", " separators
ListReprLen(lines) ==
    2 + SumSeq([i \in 1..Len(lines) |-> ReprLen(lines[i])]) + 2 * (Len(lines) - 1)

\* ------------------------------------------------------------------------
\* Inputs
\* ------------------------------------------------------------------------
\* values of OPENCODE_SESSION_ID / PARENT_SESSION_ID
ENV_a == <<"a">>

ENV_ab == <<"a", "_", "b">>

Envs == {ENV_a, ENV_ab}

\* get_session(): the first 8 characters, or "global"
get_session(current) ==
    IF current # <<>> THEN SubSeq(current, 1, Min(8, Len(current)))
    ELSE <<"g", "l", "o", "b", "a", "l">>

Sessions == {get_session(e) : e \in Envs}

N_x == <<"x">>

N_y == <<"y">>

N_t == <<"_", "t">>

N_llm_query == <<"l", "l", "m", "_", "q", "u", "e", "r", "y">>

N_llm_query_batched == N_llm_query \o <<"_", "b", "a", "t", "c", "h", "e", "d">>

N_builtins == <<"_", "_", "b", "u", "i", "l", "t", "i", "n", "s", "_", "_">>

N_name == <<"_", "_", "n", "a", "m", "e", "_", "_">>

VarNames == {N_x, N_y}

\* content-type tags
T_c == <<"c">>

T_bc == <<"b", "_", "c">>

Tags == {T_c, T_bc}

\* contents: "a\n" (two lines), "a\nA\n" (three lines, more than CHUNK_MAX)
\* and one line of more than half the quota
C_two == <<"a", NL>>

C_three == <<"a", NL, "A", NL>>

C_big == [i \in 1..(MAX_REGISTRY_SIZE \div 2 + 1) |-> "a"]

Contents == {C_two, C_three, C_big}

\* ------------------------------------------------------------------------
\* Variable Records and the size accounting
\* ------------------------------------------------------------------------
\* the dictionary load_context stores (server.py:494-504)
VarRecord(content, content_type) ==
    LET lines == split(content)
    IN [content |-> content, lines |-> lines, line_count |-> Len(lines),
        size |-> Len(content), type |-> content_type, metadata |-> <<>>]

\* len(str(v)) of that dictionary: 8 quoted keys with ": ", 7 ", ", the
\* braces (101 characters), then the repr of each value; metadata is {}
\* and the two ISO timestamps are 26 characters in quotes
StrLen(v) ==
    101 + ReprLen(v.content) + ListReprLen(v.lines) + Len(Dec(v.line_count))
        + Len(Dec(v.size)) + ReprLen(v.type) + 2 + 28 + 28

HandlePrefix(session) == <<"c", "t", "x", "_">> \o session \o <<"_">>

\* mutant of session_size: the namespace part left out
session_size_RegistryOnly(R, N, session) ==
    LET mine == {h \in DOMAIN R : startswith(h, HandlePrefix(session))}
    IN IF \E h \in mine : "content" \notin DOMAIN R[h]
       THEN [raised |-> TRUE, value |-> 0]
       ELSE [raised |-> FALSE,
             value |-> SumOver([h \in mine |-> Len(R[h].content)], mine)]

\* session_size(session): [raised |-> TRUE] when d["content"] is a KeyError
session_size(R, N, session) ==
    LET mine == {h \in DOMAIN R : startswith(h, HandlePrefix(session))}
        vs == Get(N, session, [vars |-> <<>>]).vars
    IN IF \E h \in mine : "content" \notin DOMAIN R[h]
       THEN [raised |-> TRUE, value |-> 0]
       ELSE [raised |-> FALSE,
             value |-> SumOver([h \in mine |-> Len(R[h].content)], mine)
                       + SumOver([k \in DOMAIN vs |-> StrLen(vs[k])], DOMAIN vs)]

\* ------------------------------------------------------------------------
\* Session management
\* ------------------------------------------------------------------------
\* mutant of generate_handle: the new sequence number is not stored
generate_handle_NotStored(S, session, content_type) ==
    LET seq == Get(S, session, 0) + 1
    IN [handle |-> <<"c", "t", "x", "_">> \o session \o <<"_">> \o content_type
                   \o <<"_">> \o Fmt03(seq),
        SEQUENCE |-> S]

\* generate_handle(content_type): the handle and the updated SEQUENCE
generate_handle(S, session, content_type) ==
    LET seq == Get(S, session, 0) + 1
    IN [handle |-> <<"c", "t", "x", "_">> \o session \o <<"_">> \o content_type
                   \o <<"_">> \o Fmt03(seq),
        SEQUENCE |-> Put(S, session, seq)]

StaleHandles(R, t) == {h \in DOMAIN R : t - R[h].accessed > IDLE_TIMEOUT}

StaleSessions(N, t) == {s \in DOMAIN N : t - N[s].accessed > IDLE_TIMEOUT}

\* mutant of prune_stale: the execution environments are left behind
prune_stale_KeepsEnvs(R, N, E, S, t) ==
    [REGISTRY |-> Del(R, StaleHandles(R, t)),
     NAMESPACE |-> Del(N, StaleSessions(N, t)),
     EXEC_ENVS |-> E,
     SEQUENCE |-> S]

\* prune_stale(): the four dictionaries after the sweep at time t
prune_stale(R, N, E, S, t) ==
    [REGISTRY |-> Del(R, StaleHandles(R, t)),
     NAMESPACE |-> Del(N, StaleSessions(N, t)),
     EXEC_ENVS |-> Del(E, StaleSessions(N, t)),
     SEQUENCE |-> S]

\* ensure_namespace(session)
ensure_namespace(N, session, t) ==
    IF session \notin DOMAIN N
    THEN Put(N, session, [vars |-> <<>>, accessed |-> t])
    ELSE N

\* ------------------------------------------------------------------------
\* Execution Environment
\* ------------------------------------------------------------------------
\* Python values the executed code handles
IntVal(i) == [int |-> i]

VarVal(v) == [var |-> v]

FuncVal(n) == [func |-> n]

StrVal(s) == [str |-> s]

BuiltinsVal == [builtins |-> TRUE]

\* str(value), as print writes it; a dictionary is cut down to its content
Str(v) ==
    IF "int" \in DOMAIN v THEN Dec(v.int)
    ELSE IF "var" \in DOMAIN v THEN <<"{">> \o v.var.content \o <<"}">>
    ELSE IF "str" \in DOMAIN v THEN v.str
    ELSE <<"<">> \o Get(v, "func", N_builtins) \o <<">">>

\* ExecutionEnvironment.__init__: globals is fixed at construction
ExecGlobals ==
    [k \in {N_builtins, N_name, N_llm_query, N_llm_query_batched} |->
        IF k = N_builtins THEN BuiltinsVal
        ELSE IF k = N_name THEN StrVal(<<"_", "_", "m", "a", "i", "n", "_", "_">>)
        ELSE FuncVal(k)]

ExecutionEnvironment(session) ==
    [session |-> session, pending |-> <<>>, locals |-> <<>>]

\* get_exec_env(session): EXEC_ENVS after the call
get_exec_env(E, session) ==
    IF session \notin DOMAIN E THEN Put(E, session, ExecutionEnvironment(session)) ELSE E

\* ExecutionEnvironment._llm_query: the pending list after the append
llm_query(pending, prompt) ==
    Append(pending, [id |-> <<"q", "_">> \o Fmt03(Len(pending)), prompt |-> prompt,
                     model |-> "None"])

\* the sentinel _llm_query returns
Deferred(pending) == [deferred |-> <<"q", "_">> \o Fmt03(Len(pending))]

\* ExecutionEnvironment._llm_query_batched
RECURSIVE llm_query_batched(_, _)
llm_query_batched(pending, prompts) ==
    IF prompts = <<>> THEN pending
    ELSE llm_query_batched(llm_query(pending, Head(prompts)), Tail(prompts))

RECURSIVE BatchedResults(_, _)
BatchedResults(pending, prompts) ==
    IF prompts = <<>> THEN <<>>
    ELSE <<Deferred(pending)>> \o BatchedResults(llm_query(pending, Head(prompts)), Tail(prompts))

\* Statements of the executed code:
\*   name = value | print(name) | llm_query(prompt) | raise ValueError |
\*   raise BaseException
Assign(n, i) == [op |-> "assign", name |-> n, value |-> IntVal(i)]

PrintName(n) == [op |-> "print", name |-> n]

CallQuery(p) == [op |-> "llm_query", prompt |-> p]

Raise == [op |-> "raise"]

RaiseBase == [op |-> "raise_base"]

NoError == [kind |-> "None"]

\* exec(code, combined, combined): runs the statements in order and stops at
\* the first exception; m is [scope, stdout, pending, error]
RECURSIVE exec(_, _)
exec(code, m) ==
    IF code = <<>> \/ m.error # NoError THEN m
    ELSE LET st == Head(code)
             bound == st.op \in {"raise", "raise_base", "assign"}
                      \/ (IF st.op = "print" THEN st.name ELSE N_llm_query) \in DOMAIN m.scope
         IN exec(Tail(code),
             IF st.op = "assign" THEN [m EXCEPT !.scope = Put(m.scope, st.name, st.value)]
             ELSE IF st.op = "raise" THEN [m EXCEPT !.error = [kind |-> "ValueError", about |-> <<>>]]
             ELSE IF st.op = "raise_base"
                  THEN [m EXCEPT !.error = [kind |-> "BaseException", about |-> <<>>]]
             ELSE IF ~bound
                  THEN [m EXCEPT !.error = [kind |-> "NameError",
                                            about |-> IF st.op = "print" THEN st.name ELSE N_llm_query]]
             ELSE IF st.op = "print"
                  THEN [m EXCEPT !.stdout = m.stdout \o Str(m.scope[st.name]) \o <<NL>>]
             ELSE IF "func" \in DOMAIN m.scope[N_llm_query]
                  THEN [m EXCEPT !.pending = llm_query(m.pending, st.prompt)]
             ELSE [m EXCEPT !.error = [kind |-> "TypeError", about |-> N_llm_query]])

\* mutant of combined: the persisted locals shadow the injected variables
combined_LocalsWin(env, N) ==
    LET session_ns == Get(N, env.session, [vars |-> <<>>]).vars
    IN [k \in DOMAIN ExecGlobals \cup DOMAIN env.locals \cup DOMAIN session_ns |->
           IF k \in DOMAIN env.locals THEN env.locals[k]
           ELSE IF k \in DOMAIN session_ns THEN VarVal(session_ns[k])
           ELSE ExecGlobals[k]]

\* combined = {**self.globals, **self.locals} with the session's variables
\* injected over it (server.py:156-162)
combined(env, N) ==
    LET session_ns == Get(N, env.session, [vars |-> <<>>]).vars
    IN [k \in DOMAIN ExecGlobals \cup DOMAIN env.locals \cup DOMAIN session_ns |->
           IF k \in DOMAIN session_ns THEN VarVal(session_ns[k])
           ELSE IF k \in DOMAIN env.locals THEN env.locals[k]
           ELSE ExecGlobals[k]]

\* mutant of Persisted: the test on self.globals inverted
Persisted_Inverted(scope) ==
    {k \in DOMAIN scope : k \in DOMAIN ExecGlobals /\ ~startswith(k, <<"_">>)}

\* the keys execute copies from combined into self.locals (server.py:168-170)
Persisted(scope) ==
    {k \in DOMAIN scope : k \notin DOMAIN ExecGlobals /\ ~startswith(k, <<"_">>)}

Truncate(out) ==
    IF Len(out) > MAX_OUTPUT_SIZE
    THEN SubSeq(out, 1, MAX_OUTPUT_SIZE) \o <<NL, "[OUTPUT TRUNCATED]">>
    ELSE out

\* ExecutionEnvironment.execute(code): the environment after the call and
\* the dictionary it returns; "except Exception" (server.py:177) does not
\* catch a BaseException, which leaves execute through the finally clause
\* of _capture_output (raised)
execute(env, N, code) ==
    LET m == exec(code, [scope |-> combined(env, N), stdout |-> <<>>,
                         pending |-> <<>>, error |-> NoError])
        success == m.error = NoError
        locals == IF success
                  THEN [k \in DOMAIN env.locals \cup Persisted(m.scope) |->
                           IF k \in Persisted(m.scope) THEN m.scope[k] ELSE env.locals[k]]
                  ELSE env.locals
    IN [env |-> [env EXCEPT !.pending = m.pending, !.locals = locals],
        raised |-> m.error.kind = "BaseException",
        result |-> [success |-> success,
                    stdout |-> Truncate(m.stdout),
                    stderr |-> Truncate(IF success THEN <<>> ELSE <<m.error>>),
                    error |-> m.error,
                    pending_llm_queries |-> m.pending,
                    locals |-> DOMAIN locals]]

\* ------------------------------------------------------------------------
\* Text Accessor
\* ------------------------------------------------------------------------
Lower(c) == IF c = "A" THEN "a" ELSE IF c = "B" THEN "b" ELSE c

\* re.compile(pattern, re.IGNORECASE) for patterns that are literals or an
\* unbalanced group: FALSE stands for re.error
Compiles(pattern) == \A i \in 1..Len(pattern) : pattern[i] # "("

\* regex.search(line) for a literal pattern, ignoring case
Search(pattern, line) ==
    \E i \in 1..(Len(line) - Len(pattern) + 1) :
        \A j \in 1..Len(pattern) : Lower(line[i + j - 1]) = Lower(pattern[j])

\* the scan loop (server.py:583-596): the matches collected from line i on
RECURSIVE ScanFrom(_, _, _, _, _, _)
ScanFrom(lines, i, pattern, context_lines, max_matches, matches) ==
    IF i > Len(lines) THEN matches
    ELSE IF ~Search(pattern, lines[i])
         THEN ScanFrom(lines, i + 1, pattern, context_lines, max_matches, matches)
    ELSE LET base == [line |-> i - 1, text |-> lines[i]]
             data == IF context_lines > 0
                     THEN [line |-> i - 1, text |-> lines[i],
                           context |-> PySlice(lines, Max(0, i - 1 - context_lines),
                                               Min(Len(lines), i - 1 + context_lines + 1))]
                     ELSE base
             more == Append(matches, data)
         IN IF Len(more) >= max_matches THEN more
            ELSE ScanFrom(lines, i + 1, pattern, context_lines, max_matches, more)

\* ------------------------------------------------------------------------
\* State
\* ------------------------------------------------------------------------
VARIABLES
    now,        \* datetime.now(), in ticks
    REGISTRY,   \* handle -> [session, var_name, content_type, created, accessed]
    NAMESPACE,  \* session -> [vars: name -> Variable Record, accessed]
    SEQUENCE,   \* session -> last sequence number handed out
    EXEC_ENVS,  \* session -> [session, pending, locals]
    call,       \* the last tool invocation: [tool, session, args]
    result,     \* what that invocation returned (kind "raised": it raised)
    \* history variables, read by the properties only
    issued,     \* session -> the handles register_handle returned, in order
    stored,     \* handle -> the pair it was registered with and its last use
    lifeStart,  \* evicted session -> handles issued before its last eviction
    lastCall,   \* session -> time of its last invocation
    assigned,   \* session -> name -> value last assigned by successful code,
                \* for names no variable of which was loaded then or since
    dangling,   \* the registered handles whose variable was unloaded or whose
                \* session was evicted since they were registered
    evictedEnvs,
                \* the sessions whose Execution Environment a sweep removed
    \* threads calling ExecutionEnvironment.execute
    pc,         \* thread -> its position in execute
    env_of,     \* thread -> session of the environment it calls execute on
    lock,       \* session -> thread holding the environment's _lock, 0: free
    sys_stdout, \* the stream installed as sys.stdout and sys.stderr:
                \* 0 the original one, t the buffers of thread t's call
    old,        \* thread -> old_stdout, old_stderr of its _capture_output
    written,    \* stream -> what was written to it
    returned,   \* thread -> stdout_buf.getvalue() of its call
    reported    \* thread -> pending_llm_queries of the dictionary it returned

threadVars == <<pc, env_of, lock, sys_stdout, old, written, returned, reported>>

vars == <<now, REGISTRY, NAMESPACE, SEQUENCE, EXEC_ENVS, call, result,
          issued, stored, lifeStart, lastCall, assigned, dangling, evictedEnvs,
          pc, env_of, lock, sys_stdout, old, written, returned, reported>>

Threads == {1, 2}

NoCall == [tool |-> "none"]

NoResult == [kind |-> "none"]

Raised(exc) == [kind |-> "raised", exception |-> exc]

Init ==
    /\ now = 0
    /\ REGISTRY = <<>>
    /\ NAMESPACE = <<>>
    /\ SEQUENCE = <<>>
    /\ EXEC_ENVS = <<>>
    /\ call = NoCall
    /\ result = NoResult
    /\ issued = <<>>
    /\ stored = <<>>
    /\ lifeStart = <<>>
    /\ lastCall = <<>>
    /\ assigned = <<>>
    /\ dangling = {}
    /\ evictedEnvs = {}
    /\ pc = [t \in Threads |-> "idle"]
    /\ env_of = [t \in Threads |-> <<>>]
    /\ lock = [s \in Sessions |-> 0]
    /\ sys_stdout = 0
    /\ old = [t \in Threads |-> 0]
    /\ written = [i \in {0} \cup Threads |-> <<>>]
    /\ returned = [t \in Threads |-> <<>>]
    /\ reported = [t \in Threads |-> <<>>]

\* call_tool lines 472-474: the dictionaries after prune_stale() and
\* ensure_namespace(session)
Entered(session) ==
    LET swept == prune_stale(REGISTRY, NAMESPACE, EXEC_ENVS, SEQUENCE, now)
    IN [swept EXCEPT !.NAMESPACE = ensure_namespace(swept.NAMESPACE, session, now)]

\* the history variables after the sweep
Evicted == StaleSessions(NAMESPACE, now)

History ==
    [issued |-> issued,
     stored |-> Del(stored, {h \in DOMAIN stored : now - stored[h].touched > IDLE_TIMEOUT}),
     assigned |-> Del(assigned, Evicted),
     dangling |-> dangling \cup {h \in DOMAIN REGISTRY : REGISTRY[h].session \in Evicted}]

\* the state after a call: the dictionaries d, the history h
Return(session, d, h, c, r) ==
    /\ now' = now
    /\ REGISTRY' = d.REGISTRY
    /\ NAMESPACE' = d.NAMESPACE
    /\ SEQUENCE' = d.SEQUENCE
    /\ EXEC_ENVS' = d.EXEC_ENVS
    /\ call' = c
    /\ result' = r
    /\ issued' = h.issued
    /\ stored' = h.stored
    /\ assigned' = h.assigned
    /\ dangling' = h.dangling \cap DOMAIN d.REGISTRY
    /\ evictedEnvs' = evictedEnvs \cup (Evicted \cap DOMAIN EXEC_ENVS)
    /\ lifeStart' = [s \in DOMAIN lifeStart \cup Evicted |->
                        IF s \in Evicted THEN Len(Get(issued, s, <<>>)) ELSE lifeStart[s]]
    /\ lastCall' = Put(lastCall, session, now)
    /\ UNCHANGED threadVars

VariableNotFound(name) == [kind |-> "variable_not_found", name |-> name]

\* ------------------------------------------------------------------------
\* call_tool, one action per tool
\* ------------------------------------------------------------------------
load_context(env, name, content, content_type) ==
    LET session == get_session(env)
        d == Entered(session)
        c == [tool |-> "load_context", session |-> session,
              args |-> [name |-> name, content |-> content, content_type |-> content_type]]
        size == session_size(d.REGISTRY, d.NAMESPACE, session)
        rec == VarRecord(content, content_type)
    IN IF size.raised THEN Return(session, d, History, c, Raised("KeyError"))
       ELSE IF size.value + Len(content) > MAX_REGISTRY_SIZE
       THEN Return(session, d, History, c,
                   [kind |-> "quota_exceeded", current_size |-> size.value,
                    limit |-> MAX_REGISTRY_SIZE])
       ELSE Return(session,
                   [d EXCEPT !.NAMESPACE =
                       Put(@, session, [vars |-> Put(@[session].vars, name, rec),
                                        accessed |-> now])],
                   [History EXCEPT !.assigned =
                       IF session \in DOMAIN @ THEN Put(@, session, Del(@[session], {name}))
                       ELSE @],
                   c,
                   [kind |-> "loaded", name |-> name, line_count |-> rec.line_count,
                    size |-> rec.size, type |-> content_type])

peek(env, name, args) ==
    LET session == get_session(env)
        d == Entered(session)
        c == [tool |-> "peek", session |-> session, args |-> [name |-> name] @@ args]
        vs == d.NAMESPACE[session].vars
        offset == Max(0, Get(args, "offset", 0))
        limit == Min(Get(args, "limit", CHUNK_DEFAULT), CHUNK_MAX)
        lines == vs[name].lines
        chunk == PySlice(lines, offset, offset + limit)
    IN IF name \notin DOMAIN vs
       THEN Return(session, d, History, c,
                   [kind |-> "variable_not_found", name |-> name, available |-> DOMAIN vs])
       ELSE Return(session,
                   [d EXCEPT !.NAMESPACE = Put(@, session, [@[session] EXCEPT !.accessed = now])],
                   History, c,
                   [kind |-> "peek", name |-> name, offset |-> offset, limit |-> limit,
                    total_lines |-> Len(lines), returned |-> Len(chunk),
                    has_more |-> offset + Len(chunk) < Len(lines),
                    content |-> join(chunk)])

scan(env, name, pattern, args) ==
    LET session == get_session(env)
        d == Entered(session)
        c == [tool |-> "scan", session |-> session,
              args |-> [name |-> name, pattern |-> pattern] @@ args]
        vs == d.NAMESPACE[session].vars
        context_lines == Get(args, "context_lines", 0)
        max_matches == Min(Get(args, "max_matches", 50), 200)
        touched == [d EXCEPT !.NAMESPACE = Put(@, session, [@[session] EXCEPT !.accessed = now])]
        matches == ScanFrom(vs[name].lines, 1, pattern, context_lines, max_matches, <<>>)
    IN IF name \notin DOMAIN vs
       THEN Return(session, d, History, c, VariableNotFound(name))
       ELSE IF ~Compiles(pattern)
       THEN Return(session, touched, History, c, [kind |-> "invalid_regex"])
       ELSE Return(session, touched, History, c,
                   [kind |-> "scan", name |-> name, pattern |-> pattern,
                    matches |-> Len(matches), truncated |-> Len(matches) >= max_matches,
                    results |-> matches])

list_vars(env) ==
    LET session == get_session(env)
        d == Entered(session)
        c == [tool |-> "list_vars", session |-> session, args |-> <<>>]
        vs == d.NAMESPACE[session].vars
        size == session_size(d.REGISTRY, d.NAMESPACE, session)
    IN IF size.raised THEN Return(session, d, History, c, Raised("KeyError"))
       ELSE Return(session, d, History, c,
                   [kind |-> "list_vars", session |-> session,
                    variables |-> {[name |-> k, line_count |-> vs[k].line_count,
                                    size |-> vs[k].size, type |-> vs[k].type] : k \in DOMAIN vs},
                    total_size |-> size.value])

var_info(env, name) ==
    LET session == get_session(env)
        d == Entered(session)
        c == [tool |-> "var_info", session |-> session, args |-> [name |-> name]]
        vs == d.NAMESPACE[session].vars
    IN IF name \notin DOMAIN vs
       THEN Return(session, d, History, c, VariableNotFound(name))
       ELSE Return(session, d, History, c,
                   [kind |-> "var_info", name |-> name, line_count |-> vs[name].line_count,
                    size |-> vs[name].size, type |-> vs[name].type,
                    metadata |-> vs[name].metadata])

\* mutant of Unloaded: the handles that point at the variable go with it
Unloaded_Cascade(d, session, name) ==
    [d EXCEPT
        !.NAMESPACE = Put(@, session, [@[session] EXCEPT !.vars = Del(@, {name})]),
        !.REGISTRY = Del(@, {h \in DOMAIN @ : @[h].session = session /\ @[h].var_name = name})]

\* mutant of Unloaded: the record is not deleted
Unloaded_Kept(d, session, name) == d

\* del NAMESPACE[session]["vars"][var_name] (server.py:656)
Unloaded(d, session, name) ==
    [d EXCEPT !.NAMESPACE = Put(@, session, [@[session] EXCEPT !.vars = Del(@, {name})])]

unload(env, name) ==
    LET session == get_session(env)
        d == Entered(session)
        c == [tool |-> "unload", session |-> session, args |-> [name |-> name]]
        vs == d.NAMESPACE[session].vars
    IN IF name \in DOMAIN vs
       THEN Return(session, Unloaded(d, session, name),
                   [History EXCEPT !.dangling =
                       @ \cup {h \in DOMAIN d.REGISTRY : /\ d.REGISTRY[h].session = session
                                                        /\ d.REGISTRY[h].var_name = name}],
                   c,
                   [kind |-> "unloaded", unloaded |-> name])
       ELSE Return(session, d, History, c, VariableNotFound(name))

register_handle(env, name, content_type) ==
    LET session == get_session(env)
        d == Entered(session)
        c == [tool |-> "register_handle", session |-> session,
              args |-> [name |-> name, content_type |-> content_type]]
        g == generate_handle(d.SEQUENCE, session, content_type)
    IN IF name \notin DOMAIN d.NAMESPACE[session].vars
       THEN Return(session, d, History, c, VariableNotFound(name))
       ELSE /\ Get(SEQUENCE, session, 0) < MaxSeq
            /\ Return(session,
                      [d EXCEPT !.SEQUENCE = g.SEQUENCE,
                                !.REGISTRY = Put(@, g.handle,
                                    [session |-> session, var_name |-> name,
                                     content_type |-> content_type,
                                     created |-> now, accessed |-> now])],
                      [History EXCEPT
                          !.issued = Put(@, session, Append(Get(@, session, <<>>), g.handle)),
                          !.stored = Put(@, g.handle,
                                         [session |-> session, var_name |-> name,
                                          type |-> content_type, touched |-> now])],
                      c,
                      [kind |-> "handle", handle |-> g.handle, var_name |-> name,
                       type |-> content_type])

resolve_handle(env, handle) ==
    LET session == get_session(env)
        d == Entered(session)
        c == [tool |-> "resolve_handle", session |-> session, args |-> [handle |-> handle]]
        h == [History EXCEPT !.stored =
                 IF handle \in DOMAIN @ THEN Put(@, handle, [@[handle] EXCEPT !.touched = now])
                 ELSE @]
    IN IF handle \notin DOMAIN d.REGISTRY
       THEN Return(session, d, h, c, [kind |-> "handle_not_found", handle |-> handle])
       ELSE Return(session,
                   [d EXCEPT !.REGISTRY = Put(@, handle, [@[handle] EXCEPT !.accessed = now])],
                   h, c,
                   [kind |-> "resolved", handle |-> handle,
                    var_name |-> d.REGISTRY[handle].var_name,
                    session |-> d.REGISTRY[handle].session,
                    type |-> d.REGISTRY[handle].content_type])

\* the names a program assigns, with the value each ends up with
RECURSIVE AssignedBy(_, _)
AssignedBy(code, acc) ==
    IF code = <<>> THEN acc
    ELSE AssignedBy(Tail(code),
                    IF Head(code).op = "assign"
                    THEN Put(acc, Head(code).name, Head(code).value) ELSE acc)

eval_code(env, code) ==
    LET session == get_session(env)
        d == Entered(session)
        c == [tool |-> "eval_code", session |-> session, args |-> [code |-> code]]
        E == get_exec_env(d.EXEC_ENVS, session)
        x == execute(E[session], d.NAMESPACE, code)
    IN IF x.raised
       THEN Return(session, [d EXCEPT !.EXEC_ENVS = Put(E, session, x.env)], History, c,
                   Raised("BaseException"))
       ELSE IF x.result.success
       THEN Return(session,
              [d EXCEPT !.EXEC_ENVS = Put(E, session, x.env)],
              [History EXCEPT !.assigned =
                  Put(@, session, Del(AssignedBy(code, Get(@, session, <<>>)),
                                      DOMAIN d.NAMESPACE[session].vars))],
              c,
              [kind |-> "eval", success |-> x.result.success, stdout |-> x.result.stdout,
               stderr |-> x.result.stderr, error |-> x.result.error,
               pending_llm_queries |-> x.result.pending_llm_queries,
               defined_variables |-> x.result.locals])
       ELSE Return(session,
              [d EXCEPT !.EXEC_ENVS = Put(E, session, x.env)],
              History,
              c,
              [kind |-> "eval", success |-> x.result.success, stdout |-> x.result.stdout,
               stderr |-> x.result.stderr, error |-> x.result.error,
               pending_llm_queries |-> x.result.pending_llm_queries,
               defined_variables |-> x.result.locals])

llm_query_tool(env, prompt) ==
    LET session == get_session(env)
        d == Entered(session)
        c == [tool |-> "llm_query", session |-> session, args |-> [prompt |-> prompt]]
        E == get_exec_env(d.EXEC_ENVS, session)
        pending == llm_query(E[session].pending, prompt)
    IN /\ Len(E[session].pending) < MaxPending
       /\ Return(session,
                 [d EXCEPT !.EXEC_ENVS = Put(E, session, [E[session] EXCEPT !.pending = pending])],
                 History, c,
                 [kind |-> "deferred", message |-> Deferred(E[session].pending),
                  pending_queries |-> pending])

llm_query_batched_tool(env, prompts) ==
    LET session == get_session(env)
        d == Entered(session)
        c == [tool |-> "llm_query_batched", session |-> session, args |-> [prompts |-> prompts]]
        E == get_exec_env(d.EXEC_ENVS, session)
        pending == llm_query_batched(E[session].pending, prompts)
    IN /\ Len(E[session].pending) + Len(prompts) <= MaxPending
       /\ Return(session,
                 [d EXCEPT !.EXEC_ENVS = Put(E, session, [E[session] EXCEPT !.pending = pending])],
                 History, c,
                 [kind |-> "deferred", count |-> Len(prompts),
                  results |-> BatchedResults(E[session].pending, prompts),
                  pending_queries |-> pending])

unknown_tool(env) ==
    LET session == get_session(env)
    IN /\ env \in Envs
       /\ Return(session, Entered(session), History,
                 [tool |-> "unknown", session |-> session, args |-> <<>>],
                 [kind |-> "unknown_tool"])

\* time passes between two invocations
Tick ==
    /\ now < MaxTime
    /\ now' = now + 1
    /\ call' = NoCall
    /\ result' = NoResult
    /\ UNCHANGED <<REGISTRY, NAMESPACE, SEQUENCE, EXEC_ENVS,
                   issued, stored, lifeStart, lastCall, assigned, dangling,
                   evictedEnvs>>
    /\ UNCHANGED threadVars

\* ------------------------------------------------------------------------
\* ExecutionEnvironment.execute run by threads, one action per step; the
\* code of thread t is print(t); llm_query(t)
\* ------------------------------------------------------------------------
storeVars == <<now, REGISTRY, NAMESPACE, SEQUENCE, call, result,
               issued, stored, lifeStart, lastCall, assigned, dangling,
               evictedEnvs>>

\* what print(t) writes
Mark(t) == Dec(t) \o <<NL>>

\* mutant of LockFree: the lock is never waited for
LockFree_Always(holder) == TRUE

\* threading.Lock: acquire blocks while another thread holds it
LockFree(holder) == holder = 0

\* execute is entered on the session's environment: the pending list is
\* cleared before the lock is taken (server.py:150-151)
Begin(t, session) ==
    LET E == get_exec_env(EXEC_ENVS, session)
    IN /\ pc[t] = "idle"
       /\ pc' = [pc EXCEPT ![t] = "cleared"]
       /\ env_of' = [env_of EXCEPT ![t] = session]
       /\ EXEC_ENVS' = Put(E, session, [E[session] EXCEPT !.pending = <<>>])
       /\ UNCHANGED <<storeVars, reported, lock, sys_stdout, old, written, returned>>

\* with self._lock (server.py:137)
Acquire(t) ==
    /\ pc[t] = "cleared"
    /\ LockFree(lock[env_of[t]])
    /\ lock' = [lock EXCEPT ![env_of[t]] = t]
    /\ pc' = [pc EXCEPT ![t] = "locked"]
    /\ UNCHANGED <<storeVars, reported, EXEC_ENVS, env_of, sys_stdout, old, written, returned>>

\* old_stdout, old_stderr = sys.stdout, sys.stderr and the two new
\* StringIO buffers (server.py:138-139)
Save(t) ==
    /\ pc[t] = "locked"
    /\ old' = [old EXCEPT ![t] = sys_stdout]
    /\ written' = [written EXCEPT ![t] = <<>>]
    /\ pc' = [pc EXCEPT ![t] = "saved"]
    /\ UNCHANGED <<storeVars, reported, EXEC_ENVS, env_of, lock, sys_stdout, returned>>

\* sys.stdout, sys.stderr = stdout_buf, stderr_buf (server.py:141)
Install(t) ==
    /\ pc[t] = "saved"
    /\ sys_stdout' = t
    /\ pc' = [pc EXCEPT ![t] = "capturing"]
    /\ UNCHANGED <<storeVars, reported, EXEC_ENVS, env_of, lock, old, written, returned>>

\* exec(code, combined, combined): print writes to the stream that is
\* sys.stdout at that moment, llm_query appends to the list that is the
\* environment's pending list at that moment (server.py:165, 117-125)
Run(t) ==
    /\ pc[t] = "capturing"
    /\ written' = [written EXCEPT ![sys_stdout] = @ \o Mark(t)]
    /\ EXEC_ENVS' = [EXEC_ENVS EXCEPT ![env_of[t]].pending = llm_query(@, Dec(t))]
    /\ pc' = [pc EXCEPT ![t] = "ran"]
    /\ UNCHANGED <<storeVars, reported, env_of, lock, sys_stdout, old, returned>>

\* stdout = stdout_buf.getvalue() (server.py:172-173)
GetValue(t) ==
    /\ pc[t] = "ran"
    /\ returned' = [returned EXCEPT ![t] = written[t]]
    /\ pc' = [pc EXCEPT ![t] = "collected"]
    /\ UNCHANGED <<storeVars, reported, EXEC_ENVS, env_of, lock, sys_stdout, old, written>>

\* finally: sys.stdout, sys.stderr = old_stdout, old_stderr (server.py:144)
Restore(t) ==
    /\ pc[t] = "collected"
    /\ sys_stdout' = old[t]
    /\ pc' = [pc EXCEPT ![t] = "restored"]
    /\ UNCHANGED <<storeVars, reported, EXEC_ENVS, env_of, lock, old, written, returned>>

\* the with block of the lock is left
Release(t) ==
    /\ pc[t] = "restored"
    /\ lock' = [lock EXCEPT ![env_of[t]] = 0]
    /\ pc' = [pc EXCEPT ![t] = "released"]
    /\ UNCHANGED <<storeVars, reported, EXEC_ENVS, env_of, sys_stdout, old, written, returned>>

\* execute returns its dictionary with a copy of the pending list
\* (server.py:189-197)
Finish(t) ==
    /\ pc[t] = "released"
    /\ reported' = [reported EXCEPT ![t] = EXEC_ENVS[env_of[t]].pending]
    /\ pc' = [pc EXCEPT ![t] = "done"]
    /\ UNCHANGED <<storeVars, EXEC_ENVS, env_of, lock, sys_stdout, old, written, returned>>

\* ------------------------------------------------------------------------
\* Next-state relations: the tools under the invocations of one feature each
\* ------------------------------------------------------------------------
\* every handle string register_handle has returned so far
Handles == UNION {{issued[s][i] : i \in 1..Len(issued[s])} : s \in DOMAIN issued}

PeekArgs ==
    {<<>>, [offset |-> 0, limit |-> 3], [offset |-> 1, limit |-> 1],
     [offset |-> -1, limit |-> -1]}

ScanArgs == {<<>>, [context_lines |-> 1, max_matches |-> 1], [max_matches |-> 0]}

Patterns == {<<"A">>, <<"(">>}

\* Namespace Store and Text Accessor of one session
Next ==
    \/ \E content \in Contents : load_context(ENV_a, N_x, content, T_c)
    \/ load_context(ENV_a, N_y, C_two, T_c)
    \/ \E args \in PeekArgs : peek(ENV_a, N_x, args)
    \/ \E pattern \in Patterns, args \in ScanArgs : scan(ENV_a, N_x, pattern, args)
    \/ list_vars(ENV_a)
    \/ \E name \in VarNames : var_info(ENV_a, name)
    \/ \E name \in VarNames : unload(ENV_a, name)
    \/ register_handle(ENV_a, N_x, T_c)
    \/ \E handle \in Handles : resolve_handle(ENV_a, handle)
    \/ unknown_tool(ENV_a)
    \/ Tick

\* one session's handles
NextHandles ==
    \/ load_context(ENV_a, N_x, C_two, T_c)
    \/ peek(ENV_a, N_x, <<>>)
    \/ scan(ENV_a, N_x, <<"a">>, <<>>)
    \/ var_info(ENV_a, N_x)
    \/ unload(ENV_a, N_x)
    \/ \E content_type \in Tags : register_handle(ENV_a, N_x, content_type)
    \/ \E handle \in Handles : resolve_handle(ENV_a, handle)
    \/ Tick

SpecHandles == Init /\ [][NextHandles]_vars

Codes ==
    { <<Assign(N_x, 1)>>,
      <<Assign(N_x, 2), Raise>>,
      <<PrintName(N_x)>>,
      <<PrintName(N_x), Raise>>,
      <<Assign(N_y, 1), RaiseBase>>,
      <<Assign(N_llm_query, 1), Assign(N_t, 1)>>,
      <<CallQuery(<<"h">>), CallQuery(<<"w">>)>> }

Prompts == {<<"h">>, <<"w">>}

\* one session's execution environment
NextExec ==
    \/ \E content \in {C_two, C_three} : load_context(ENV_a, N_x, content, T_c)
    \/ unload(ENV_a, N_x)
    \/ \E code \in Codes : eval_code(ENV_a, code)
    \/ \E prompt \in Prompts : llm_query_tool(ENV_a, prompt)
    \/ \E prompts \in {<<>>, <<<<"h">>, <<"w">>>>} : llm_query_batched_tool(ENV_a, prompts)
    \/ Tick

SpecExec == Init /\ [][NextExec]_vars

\* two sessions: "a" reads, "a_b" registers and resolves a handle
NextSessions ==
    \/ \E env \in Envs : load_context(env, N_x, C_two, T_c)
    \/ list_vars(ENV_a)
    \/ var_info(ENV_a, N_x)
    \/ register_handle(ENV_ab, N_x, T_c)
    \/ \E handle \in Handles : resolve_handle(ENV_ab, handle)
    \/ \E code \in {<<Assign(N_x, 1)>>, <<PrintName(N_x)>>} : eval_code(ENV_a, code)
    \/ Tick

SpecSessions == Init /\ [][NextSessions]_vars

\* one session's quota: small and large contents under two names
NextQuota ==
    \/ \E name \in VarNames, content \in {C_two, C_big} :
          load_context(ENV_a, name, content, T_c)
    \/ \E name \in VarNames : unload(ENV_a, name)
    \/ list_vars(ENV_a)
    \/ Tick

SpecQuota == Init /\ [][NextQuota]_vars

\* two threads, each calling execute once on the environment of a session
NextThreads ==
    \E t \in Threads :
       \/ \E session \in Sessions : Begin(t, session)
       \/ Acquire(t)
       \/ Save(t)
       \/ Install(t)
       \/ Run(t)
       \/ GetValue(t)
       \/ Restore(t)
       \/ Release(t)
       \/ Finish(t)

SpecThreads == Init /\ [][NextThreads]_vars

\* two sessions registering handles, the tags with and without underscore
NextRegistry ==
    \/ \E env \in Envs : load_context(env, N_x, C_two, T_c)
    \/ \E content_type \in Tags : register_handle(ENV_a, N_x, content_type)
    \/ register_handle(ENV_ab, N_x, T_c)
    \/ \E env \in Envs, handle \in Handles : resolve_handle(env, handle)
    \/ Tick

SpecRegistry == Init /\ [][NextRegistry]_vars

Spec == Init /\ [][Next]_vars

\* ------------------------------------------------------------------------
\* Properties
\* ------------------------------------------------------------------------
VarsOf(N, session) == Get(N, session, [vars |-> <<>>]).vars

\* the sum of the size fields of a session's Variable Records
ContentTotal(N, session) ==
    LET vs == VarsOf(N, session)
    IN SumOver([k \in DOMAIN vs |-> vs[k].size], DOMAIN vs)

LocalsOf(E) == [s \in DOMAIN E |-> E[s].locals]

\* C1: every operation returns a structured result payload; no operation
\* raises out of call_tool, also not load or list_vars in a session that has
\* a live registered handle.
C1_NoOperationRaises == result.kind # "raised"

\* C2: a load whose content size, added to the content sizes the session
\* holds when the load starts (after the sweep every call begins with),
\* exceeds the quota returns quota_exceeded and leaves the session's
\* variables, the handle registry, the sequence counters and the persisted
\* locals as they were when it started.
C2_RejectedLoadMutatesNothing ==
    [][ (/\ call'.tool = "load_context"
         /\ ContentTotal(Entered(call'.session).NAMESPACE, call'.session)
                + Len(call'.args.content) > MAX_REGISTRY_SIZE)
        => (/\ result'.kind = "quota_exceeded"
            /\ VarsOf(NAMESPACE', call'.session)
                  = VarsOf(Entered(call'.session).NAMESPACE, call'.session)
            /\ REGISTRY' = Entered(call'.session).REGISTRY
            /\ SEQUENCE' = Entered(call'.session).SEQUENCE
            /\ LocalsOf(EXEC_ENVS') = LocalsOf(Entered(call'.session).EXEC_ENVS)) ]_vars

\* the last call was a successful peek from offset 0 with a limit of at
\* least the variable's line count
PeekedWhole ==
    /\ call.tool = "peek"
    /\ result.kind = "peek"
    /\ Get(call.args, "offset", 0) = 0
    /\ Get(call.args, "limit", CHUNK_DEFAULT) >= result.total_lines

\* C3 as stated: load(name, content) then peek(name, 0, L) with L >= the line
\* count returns exactly the loaded content and has_more = false.
C3_PeekWholeReturnsContent ==
    PeekedWhole =>
        /\ result.content = NAMESPACE[call.session].vars[call.args.name].content
        /\ ~result.has_more

\* C3 amended: the same, for variables of at most CHUNK_MAX lines.
C3_PeekWholeWithinChunkMax ==
    (PeekedWhole /\ result.total_lines <= CHUNK_MAX) =>
        /\ result.content = NAMESPACE[call.session].vars[call.args.name].content
        /\ ~result.has_more

C3_Witness ==
    /\ PeekedWhole
    /\ result.total_lines = CHUNK_MAX
    /\ result.content = C_two

\* C4: handles are weak references with no cascading delete.  A handle that
\* has not gone stale since it was registered or last resolved is still in
\* the registry with the (session, name) pair it was registered with, also
\* after the variable was unloaded, and resolve_handle returns that pair;
\* a lookup (var_info, peek, scan) of a name the session does not hold
\* reports variable_not_found.
C4_WeakReference ==
    /\ \A h \in DOMAIN stored :
          now - stored[h].touched <= IDLE_TIMEOUT =>
             /\ h \in DOMAIN REGISTRY
             /\ REGISTRY[h].session = stored[h].session
             /\ REGISTRY[h].var_name = stored[h].var_name
    /\ (call.tool = "resolve_handle" /\ call.args.handle \in DOMAIN stored) =>
          /\ result.kind = "resolved"
          /\ result.session = stored[call.args.handle].session
          /\ result.var_name = stored[call.args.handle].var_name
    /\ (/\ call.tool \in {"var_info", "peek", "scan"}
        /\ call.args.name \notin DOMAIN VarsOf(NAMESPACE, call.session)) =>
          result.kind = "variable_not_found"

\* register_handle, unload and resolve_handle at the same instant: the
\* handle resolves to a variable its session no longer holds
C4_Witness ==
    /\ now = 0
    /\ call.tool = "resolve_handle"
    /\ result.kind = "resolved"
    /\ result.session \in DOMAIN NAMESPACE
    /\ result.var_name \notin DOMAIN NAMESPACE[result.session].vars

\* a session whose Namespace entry the next sweep removes
Stale(s) == s \in DOMAIN NAMESPACE /\ now - NAMESPACE[s].accessed > IDLE_TIMEOUT

\* C5: when an operation arrives for a session whose last access and whose
\* last operation are older than the idle timeout, it sees a fresh and empty
\* session: list_vars returns no variables, a lookup of a name reports
\* variable_not_found, and eval_code has no name bound by earlier calls.
C5_IdleSessionSeenFresh ==
    [][ \A s \in DOMAIN NAMESPACE :
          (/\ Stale(s)
           /\ now - Get(lastCall, s, 0) > IDLE_TIMEOUT
           /\ call'.tool # "none"
           /\ call'.session = s)
          => /\ call'.tool = "list_vars" =>
                   (result'.kind = "list_vars" /\ result'.variables = {})
             /\ call'.tool \in {"var_info", "peek", "scan", "unload", "register_handle"} =>
                   result'.kind = "variable_not_found"
             /\ call'.tool = "eval_code" =>
                   result'.defined_variables \subseteq DOMAIN AssignedBy(call'.args.code, <<>>) ]_vars

\* the scope an eval_code call of session s starts from
StartScope(s) == combined(get_exec_env(EXEC_ENVS, s)[s], NAMESPACE)

\* C6 as stated: in a session that is not evicted, a name without the
\* underscore prefix assigned by a successful eval_code call is bound to the
\* assigned value at the start of every later eval_code call, until code
\* reassigns it or a variable of that name is loaded (the history variable
\* drops a name when a variable of that name is or gets loaded).
C6_LocalsPersist ==
    \A s \in DOMAIN assigned :
       ~Stale(s) =>
          \A n \in DOMAIN assigned[s] :
             ~startswith(n, <<"_">>) =>
                 /\ n \in DOMAIN StartScope(s)
                 /\ StartScope(s)[n] = assigned[s][n]

\* C6 amended: the same, for names that are not keys of the environment's
\* globals (llm_query, llm_query_batched).
C6_LocalsPersistExceptGlobals ==
    \A s \in DOMAIN assigned :
       ~Stale(s) =>
          \A n \in DOMAIN assigned[s] :
             (~startswith(n, <<"_">>) /\ n \notin DOMAIN ExecGlobals) =>
                 /\ n \in DOMAIN StartScope(s)
                 /\ StartScope(s)[n] = assigned[s][n]

\* a later call prints the value an earlier call assigned
C6_Witness ==
    /\ call.tool = "eval_code"
    /\ call.args.code = <<PrintName(N_x)>>
    /\ result.success
    /\ result.stdout = <<"1", NL>>
    /\ assigned[call.session][N_x] = IntVal(1)

\* what session s gets from its next read operations: its variables, the
\* size list_vars and load compute, its persisted locals and pending list
View(s) ==
    LET d == Entered(s)
        env == get_exec_env(d.EXEC_ENVS, s)[s]
    IN [vars |-> d.NAMESPACE[s].vars,
        size |-> session_size(d.REGISTRY, d.NAMESPACE, s),
        locals |-> env.locals,
        pending |-> env.pending]

\* C7: session isolation.  An operation invoked under one session id does
\* not change what any other session's operations return.
C7_SessionIsolation ==
    [][ \A s \in Sessions :
          (call'.tool # "none" /\ call'.session # s) => View(s)' = View(s) ]_vars

\* C8: the pending list an llm_query or llm_query_batched call returns holds
\* only the queries issued during that call, numbered from q_000.
C8_PendingScopedToCall ==
    /\ call.tool = "llm_query" =>
          result.pending_queries = llm_query(<<>>, call.args.prompt)
    /\ call.tool = "llm_query_batched" =>
          result.pending_queries = llm_query_batched(<<>>, call.args.prompts)

\* handles issued to s before its current lifetime
LifeStart(s) == Get(lifeStart, s, 0)

\* C9: the sequence counter is reset by full session eviction and by
\* nothing else: the i-th handle registered since the session was last
\* evicted (or first created) carries sequence number i, so the first handle
\* of a re-created session carries 1.
C9_SequenceRestartsAfterEviction ==
    \A s \in DOMAIN issued :
       \A i \in 1..Len(issued[s]) :
          i > LifeStart(s) => SeqOfHandle(issued[s][i]) = i - LifeStart(s)

\* C10: within a session's lifetime two successful register_handle calls
\* return different handle strings, the later one with a strictly greater
\* embedded sequence number, whatever the tags; the counter counts the
\* successful registrations only (failed register_handle calls and
\* resolve_handle calls leave it unchanged).
C10_HandlesNeverCollide ==
    \A s \in DOMAIN issued :
       /\ \A i, j \in 1..Len(issued[s]) :
             (LifeStart(s) < i /\ i < j) =>
                 /\ issued[s][i] # issued[s][j]
                 /\ SeqOfHandle(issued[s][i]) < SeqOfHandle(issued[s][j])
       /\ Get(SEQUENCE, s, 0) = Len(issued[s])

\* two handles registered in one lifetime under different tags, then a
\* register_handle that failed
C10_Witness ==
    \E s \in DOMAIN issued :
       /\ Len(issued[s]) >= LifeStart(s) + 2
       /\ \E i, j \in 1..Len(issued[s]) : stored[issued[s][i]].type # stored[issued[s][j]].type
       /\ call.tool = "register_handle"
       /\ call.session = s
       /\ result.kind = "variable_not_found"

C12_QuotaInvariant ==
    \A s \in DOMAIN NAMESPACE : ContentTotal(NAMESPACE, s) <= MAX_REGISTRY_SIZE

\* an overwriting load was rejected in a session holding the large content
C12_Witness ==
    /\ call.tool = "load_context"
    /\ result.kind = "quota_exceeded"
    /\ call.args.name \in DOMAIN VarsOf(NAMESPACE, call.session)
    /\ ContentTotal(NAMESPACE, call.session) = Len(C_big)

\* C13: the total size list_vars reports and the quota check uses is the sum
\* of the size fields of the session's variables, so a load is rejected only
\* if that sum plus the incoming content size exceeds the quota.
C13_TotalSizeIsContentTotal ==
    /\ (call.tool = "list_vars" /\ result.kind = "list_vars") =>
          result.total_size = ContentTotal(NAMESPACE, call.session)
    /\ (call.tool = "load_context" /\ result.kind = "quota_exceeded") =>
          /\ result.current_size = ContentTotal(NAMESPACE, call.session)
          /\ result.current_size + Len(call.args.content) > MAX_REGISTRY_SIZE

\* C14: for an existing variable and any integer offset and limit, peek
\* returns the lines with index i, o <= i < o + l and i < line_count, in
\* order, where o = max(0, offset) and l = limit clamped to [0, CHUNK_MAX];
\* has_more holds exactly when a line with index >= o + returned exists.
C14_PeekWindow ==
    (call.tool = "peek" /\ result.kind = "peek") =>
        LET lines == NAMESPACE[call.session].vars[call.args.name].lines
            o == Max(0, Get(call.args, "offset", 0))
            l == Max(0, Min(Get(call.args, "limit", CHUNK_DEFAULT), CHUNK_MAX))
            window == SubSeq(lines, o + 1, Min(o + l, Len(lines)))
        IN /\ result.content = join(window)
           /\ result.returned = Len(window)
           /\ result.has_more = (o + Len(window) < Len(lines))

\* the 1-based indices of the lines of a variable the pattern matches
Matching(lines, pattern) == {i \in 1..Len(lines) : Search(pattern, lines[i])}

\* C15: for an existing variable, a valid pattern and max_matches >= 0, scan
\* returns the first k matching lines in ascending order, each with its
\* 0-based index and raw text, k = min(number of matching lines, M),
\* M = min(max_matches, 200); truncated holds exactly when M matches were
\* collected.
C15_ScanFirstMatches ==
    (/\ call.tool = "scan"
     /\ result.kind = "scan"
     /\ Get(call.args, "max_matches", 50) >= 0) =>
        LET lines == NAMESPACE[call.session].vars[call.args.name].lines
            hits == Matching(lines, call.args.pattern)
            M == Min(Get(call.args, "max_matches", 50), 200)
            k == Min(Cardinality(hits), M)
        IN /\ Len(result.results) = k
           /\ result.matches = k
           /\ \A j \in 1..Len(result.results) :
                 /\ result.results[j].line + 1 \in hits
                 /\ result.results[j].text = lines[result.results[j].line + 1]
                 /\ Cardinality({i \in hits : i < result.results[j].line + 1}) = j - 1
           /\ result.truncated = (Len(result.results) = M)

\* C16: every variable_not_found error, whichever operation returns it,
\* carries the names of the variables loaded in the session.
C16_NotFoundListsAvailable ==
    result.kind = "variable_not_found" =>
        /\ "available" \in DOMAIN result
        /\ result.available = DOMAIN VarsOf(NAMESPACE, call.session)

\* the code raises
Faults(code) == \E i \in 1..Len(code) : code[i].op \in {"raise", "raise_base"}

\* C17: execution faults are contained: when the executed code raises,
\* eval_code returns success = false with the fault as its error, and the
\* persisted locals are what they were when the call started.
C17_FaultsContained ==
    [][ (call'.tool = "eval_code" /\ Faults(call'.args.code)) =>
           LET s == call'.session
               before == get_exec_env(Entered(s).EXEC_ENVS, s)[s].locals
           IN /\ result'.kind = "eval"
              /\ ~result'.success
              /\ result'.error # NoError
              /\ s \in DOMAIN EXEC_ENVS'
              /\ EXEC_ENVS'[s].locals = before ]_vars

\* C18: at the start of every eval_code call each name of a variable loaded
\* in the session is bound to the variable's current record, also when a
\* persisted local of that name exists and when the variable was overwritten
\* by a load: a call whose code begins with print(name) writes the record.
C18_LoadsVisibleToExecution ==
    /\ \A s \in DOMAIN NAMESPACE :
          \A n \in DOMAIN NAMESPACE[s].vars :
             /\ n \in DOMAIN StartScope(s)
             /\ StartScope(s)[n] = VarVal(NAMESPACE[s].vars[n])
    /\ (/\ call.tool = "eval_code"
        /\ Head(call.args.code).op = "print"
        /\ Head(call.args.code).name \in DOMAIN VarsOf(NAMESPACE, call.session)) =>
          LET rec == NAMESPACE[call.session].vars[Head(call.args.code).name]
              expected == Str(VarVal(rec)) \o <<NL>>
          IN /\ result.kind = "eval"
             /\ SubSeq(result.stdout, 1, Len(expected)) = expected

\* print(x) wrote the record of the overwritten variable x while the
\* persisted local x = 1 of an earlier call exists
C18_Witness ==
    /\ call.tool = "eval_code"
    /\ call.args.code = <<PrintName(N_x), Raise>>
    /\ N_x \in DOMAIN VarsOf(NAMESPACE, call.session)
    /\ NAMESPACE[call.session].vars[N_x].content = C_three
    /\ N_x \in DOMAIN EXEC_ENVS[call.session].locals
    /\ EXEC_ENVS[call.session].locals[N_x] = IntVal(1)
    /\ result.stdout = <<"{">> \o C_three \o <<"}", NL>>

\* the positions of execute inside "with self._capture_output()"
Capturing == {"locked", "saved", "capturing", "ran", "collected", "restored"}

\* C19: two execute calls on the same session's environment serialize:
\* their capture-and-run sections never overlap, and the stdout each call
\* returns is exactly what its own code printed.
C19_SameSessionSerializes ==
    \A t, u \in Threads :
       (t # u /\ env_of[t] = env_of[u]) =>
          /\ ~(pc[t] \in Capturing /\ pc[u] \in Capturing)
          /\ pc[t] \in {"collected", "restored", "released", "done"} =>
                returned[t] = Mark(t)

\* both calls ran on one environment and each returned its own output
C19_Witness ==
    /\ env_of[1] = env_of[2]
    /\ pc[1] = "done"
    /\ pc[2] = "done"
    /\ returned[1] = Mark(1)
    /\ returned[2] = Mark(2)

\* C20: execute calls of two different sessions run concurrently without
\* coordination: each call returns exactly the output of its own code, and
\* when both have returned the original output streams are installed again.
C20_SessionsRunIndependently ==
    \A t, u \in Threads :
       (/\ t # u
        /\ pc[t] = "done"
        /\ pc[u] = "done"
        /\ env_of[t] # env_of[u]) =>
          /\ returned[t] = Mark(t)
          /\ sys_stdout = 0

\* print(name) wrote a Variable Record
PrintedRecord(out) == out # <<>> /\ Head(out) = "{"

\* C21: only currently loaded variables are injected into the execution
\* scope: once a variable is unloaded, a later eval_code of print(name) in
\* that session does not print a Variable Record, also when an eval_code
\* call succeeded while the variable was loaded (a value the code assigned
\* to the name is an integer and prints as one).
C21_UnloadedNotInScope ==
    (/\ call.tool = "eval_code"
     /\ call.args.code = <<PrintName(N_x)>>
     /\ result.kind = "eval"
     /\ N_x \notin DOMAIN VarsOf(NAMESPACE, call.session))
    => ~(result.success /\ PrintedRecord(result.stdout))

\* the time since the last operation of session s does not exceed the idle
\* timeout (the sweep's own test of idleness is "> IDLE_TIMEOUT")
Busy(s) == s \in DOMAIN lastCall /\ now - lastCall[s] <= IDLE_TIMEOUT

\* C22: a session is evicted only when it is idle: the sweep of an operation
\* never removes a session whose last operation, of whatever kind, is no
\* longer ago than the idle timeout, so its variables and its persisted
\* locals stay available to that operation.
C22_BusySessionNeverEvicted ==
    [][ \A s \in DOMAIN NAMESPACE :
          (call'.tool # "none" /\ Busy(s)) =>
             LET d == Entered(call'.session)
             IN /\ s \notin Evicted
                /\ VarsOf(d.NAMESPACE, s) = VarsOf(NAMESPACE, s)
                /\ s \in DOMAIN EXEC_ENVS => s \in DOMAIN d.EXEC_ENVS ]_vars

\* C23: Namespace and Execution Environment of a session are evicted
\* together: between operations every session that has an Execution
\* Environment has a Namespace entry, so no sweep removes the Namespace of a
\* session and leaves its environment and persisted locals behind.
C23_EnvironmentHasNamespace ==
    DOMAIN EXEC_ENVS \subseteq DOMAIN NAMESPACE

\* an operation of another session swept a session that had an environment
C23_Witness ==
    \E s \in evictedEnvs :
       /\ call.tool # "none"
       /\ call.session # s
       /\ s \notin DOMAIN NAMESPACE
       /\ s \notin DOMAIN EXEC_ENVS

\* C24: register_handle never overwrites a live registry entry: the handle
\* it returns is not a key of the registry the call found after its sweep,
\* for every session id and tag, also ones that contain underscores.
C24_RegisterNeverOverwrites ==
    [][ (call'.tool = "register_handle" /\ result'.kind = "handle") =>
           result'.handle \notin DOMAIN Entered(call'.session).REGISTRY ]_vars

\* C25: the pending list an execute call reports holds exactly the queries
\* its own code issued, in order and numbered from q_000, whatever another
\* execute call on the same Execution Environment does meanwhile.
C25_PendingIsOwnQueries ==
    \A t \in Threads :
       pc[t] = "done" => reported[t] = llm_query(<<>>, Dec(t))

====
